---- MODULE Spec2Model ----
(***************************************************************************)
(* Model of the resumable batch worker of the UPC scraper backend:         *)
(* jobManager (job registry), upcQueue (work-item store), resultStorage    *)
(* (result store), worker (worker loop and recovery sweep) and the         *)
(* pause/resume handlers of jobController.                                 *)
(*                                                                         *)
(* Node.js runs one event-loop turn at a time, so every action below is    *)
(* one turn: the code from the point where a handler or a suspended        *)
(* worker loop is entered up to the next await on I/O or on a timer.       *)
(* One job is modelled: every operation of the code is keyed by jobId and  *)
(* jobs share no state.                                                    *)
(***************************************************************************)
EXTENDS Integers, Sequences, FiniteSets, TLC

VARIABLES up, jobs, metadata, upcs, results, csv, exports, workers, site, saved, deleted, last,
          now

vars ==
  <<up, jobs, metadata, upcs, results, csv, exports, workers, site, saved, deleted, last,
    now>>

(***************************************************************************)
(* Bounds of the model.                                                    *)
(***************************************************************************)
MaxItems == 3
MaxWorkers == 2
BatchItems == 10
DegradedItems == 8
MaxClock == 2
LoopItems == 1
EmptyItems == 12
DelayAttempts == 2

Null == [null |-> TRUE]
Nil == "null"
\* new Date().toISOString() when the clock reads at
toISOString(at) == "T" \o ToString(at)

Min(a, b) == IF a < b THEN a ELSE b

(***************************************************************************)
(* jobManager: statuses and the transition table.                          *)
(***************************************************************************)
JOB_STATUS == {"QUEUED", "RUNNING", "PAUSED", "COMPLETED", "FAILED"}

VALID_TRANSITIONS ==
  [ QUEUED    |-> {"RUNNING", "FAILED"},
    RUNNING   |-> {"PAUSED", "COMPLETED", "FAILED"},
    PAUSED    |-> {"RUNNING", "FAILED"},
    COMPLETED |-> {},
    FAILED    |-> {"QUEUED"} ]

\* the table is not consulted
isValidTransition_Any(fromStatus, toStatus) == TRUE

isValidTransition(fromStatus, toStatus) ==
  toStatus \in VALID_TRANSITIONS[fromStatus]

(***************************************************************************)
(* The operators below take and return the store                           *)
(*   s = [jobs, metadata, upcs, results, csv, exports, workers, saved]     *)
(* jobs is the entry of the in-memory Map, metadata is metadata.json,      *)
(* upcs is upcs.json, results is results.json and csv is the rows of the   *)
(* exported file of the job (none while there is no file).  exports and    *)
(* saved are histories: the number of calls of generateCsv (counted up to  *)
(* 2) and, per rowId, the number of calls of saveUpcResult (counted up to  *)
(* 2) with the result of the latest call.                                  *)
(***************************************************************************)
\* the record is created as if the job had been started
newJob_Started(n) ==
  [ status |-> "QUEUED", totalUpcs |-> n, processed |-> 0, failed |-> 0,
    startedAt |-> toISOString(0), completedAt |-> Nil, pausedAt |-> Nil,
    errorMessage |-> Nil ]

newJob(n) ==
  [ status |-> "QUEUED", totalUpcs |-> n, processed |-> 0, failed |-> 0,
    startedAt |-> Nil, completedAt |-> Nil, pausedAt |-> Nil,
    errorMessage |-> Nil ]

\* getJob: the cached record, else the record loaded from metadata.json
\* (which is then cached), else null.
getJob(s) ==
  IF s.jobs # Null THEN [s |-> s, job |-> s.jobs]
  ELSE IF s.metadata # Null
       THEN [s |-> [s EXCEPT !.jobs = s.metadata], job |-> s.metadata]
       ELSE [s |-> s, job |-> Null]

\* saveJobMetadata followed by jobs.set
storeJob(s, job) == [s EXCEPT !.jobs = job, !.metadata = job]

\* startedAt is stamped at every entry into RUNNING
stampStatus_Restamp(job, newStatus, errorMessage, at) ==
  LET j == [job EXCEPT !.status = newStatus, !.errorMessage = errorMessage]
  IN CASE newStatus = "RUNNING" ->
            [j EXCEPT !.startedAt = toISOString(at), !.pausedAt = Nil]
       [] newStatus = "PAUSED" -> [j EXCEPT !.pausedAt = toISOString(at)]
       [] newStatus \in {"COMPLETED", "FAILED"} -> [j EXCEPT !.completedAt = toISOString(at)]
       [] newStatus = "QUEUED" ->
            [j EXCEPT !.startedAt = Nil, !.completedAt = Nil,
                      !.pausedAt = Nil, !.errorMessage = Nil]

\* updateJobStatus: the assignments to the record, the clock reading at
stampStatus(job, newStatus, errorMessage, at) ==
  LET j == [job EXCEPT !.status = newStatus, !.errorMessage = errorMessage]
  IN CASE newStatus = "RUNNING" ->
            [j EXCEPT !.startedAt = IF job.startedAt = Nil THEN toISOString(at)
                                    ELSE job.startedAt,
                      !.pausedAt = Nil]
       [] newStatus = "PAUSED" -> [j EXCEPT !.pausedAt = toISOString(at)]
       [] newStatus \in {"COMPLETED", "FAILED"} -> [j EXCEPT !.completedAt = toISOString(at)]
       [] newStatus = "QUEUED" ->
            [j EXCEPT !.startedAt = Nil, !.completedAt = Nil,
                      !.pausedAt = Nil, !.errorMessage = Nil]

\* the cached record is assigned before the transition is validated
updateJobStatus_AssignFirst(s, newStatus, errorMessage) ==
  LET g == getJob(s)
  IN IF g.job = Null THEN [s |-> g.s, ret |-> Null]
     ELSE IF ~isValidTransition(g.job.status, newStatus)
          THEN [s |-> [g.s EXCEPT !.jobs = [g.job EXCEPT !.status = newStatus,
                                                          !.errorMessage = errorMessage]],
                ret |-> Null]
          ELSE LET j == stampStatus(g.job, newStatus, errorMessage, s.now)
               IN [s |-> storeJob(g.s, j), ret |-> j]

updateJobStatus(s, newStatus, errorMessage) ==
  LET g == getJob(s)
  IN IF g.job = Null THEN [s |-> g.s, ret |-> Null]
     ELSE IF ~isValidTransition(g.job.status, newStatus)
          THEN [s |-> g.s, ret |-> Null]
          ELSE LET j == stampStatus(g.job, newStatus, errorMessage, s.now)
               IN [s |-> storeJob(g.s, j), ret |-> j]

\* lastProcessedRowId and currentUpcIndex are written here and read nowhere;
\* the record of the model leaves them out.
updateJobProgress(s, processed, failed) ==
  LET g == getJob(s)
  IN IF g.job = Null THEN g.s
     ELSE storeJob(g.s, [g.job EXCEPT !.processed = processed,
                                      !.failed = failed])

\* getJobsToResume: getAllJobs loads (and caches) the job of every job
\* directory; the result is the store and the set of RUNNING records.
getJobsToResume(s) ==
  LET g == getJob(s)
  IN [s |-> g.s, jobs |-> IF g.job # Null /\ g.job.status = "RUNNING" THEN {g.job} ELSE {}]

\* deleteJob: the job directory (metadata.json, upcs.json, results.json) is
\* removed and the entry of the Map is dropped; the exported file lives in
\* another directory and stays.
deleteJob(s) ==
  [s EXCEPT !.jobs = Null, !.metadata = Null, !.upcs = <<>>, !.results = <<>>]

(***************************************************************************)
(* upcQueue.  A work item is [rowId, status]; rowId is the position in     *)
(* the input list.                                                         *)
(***************************************************************************)
UPC_STATUS == {"PENDING", "IN_PROGRESS", "DONE", "FAILED", "NOT_FOUND"}
Terminal == {"DONE", "FAILED", "NOT_FOUND"}

SetMin(S) == CHOOSE m \in S : \A o \in S : m <= o
CountStatus(s, st) == Cardinality({k \in 1..Len(s.upcs) : s.upcs[k].status = st})

\* the last PENDING item of the file is returned
getNextPendingUpc_Last(s) ==
  LET pending == {k \in 1..Len(s.upcs) : s.upcs[k].status = "PENDING"}
  IN IF pending = {} THEN 0
     ELSE s.upcs[CHOOSE m \in pending : \A o \in pending : o <= m].rowId

\* rowId of the first PENDING item in file order, 0 for null
getNextPendingUpc(s) ==
  LET pending == {k \in 1..Len(s.upcs) : s.upcs[k].status = "PENDING"}
  IN IF pending = {} THEN 0 ELSE s.upcs[SetMin(pending)].rowId

updateUpcStatus(s, rowId, status) ==
  LET found == {k \in 1..Len(s.upcs) : s.upcs[k].rowId = rowId}
  IN IF found = {} THEN s
     ELSE [s EXCEPT !.upcs[SetMin(found)].status = status]

markUpcInProgress(s, rowId) == updateUpcStatus(s, rowId, "IN_PROGRESS")
markUpcDone(s, rowId) == updateUpcStatus(s, rowId, "DONE")
markUpcFailed(s, rowId) == updateUpcStatus(s, rowId, "FAILED")
markUpcNotFound(s, rowId) == updateUpcStatus(s, rowId, "NOT_FOUND")

resetInProgressUpcs(s) ==
  [s EXCEPT !.upcs = [k \in 1..Len(s.upcs) |->
     IF s.upcs[k].status = "IN_PROGRESS"
     THEN [s.upcs[k] EXCEPT !.status = "PENDING"]
     ELSE s.upcs[k]]]

getUpcStats(s) ==
  [ total |-> Len(s.upcs),
    pending |-> CountStatus(s, "PENDING"),
    inProgress |-> CountStatus(s, "IN_PROGRESS"),
    done |-> CountStatus(s, "DONE"),
    failed |-> CountStatus(s, "FAILED"),
    notFound |-> CountStatus(s, "NOT_FOUND") ]

isAllUpcsProcessed(s) ==
  \A k \in 1..Len(s.upcs) : s.upcs[k].status \in Terminal

(***************************************************************************)
(* resultStorage.  An outcome is [rowId, status, nres, attempts]; nres is  *)
(* the length of its candidate list.                                       *)
(***************************************************************************)
\* the result is appended without looking for the rowId
saveUpcResult_AlwaysPush(s, result) ==
  [s EXCEPT !.results = Append(s.results, result)]

saveUpcResult(s, result) ==
  LET existing == {k \in 1..Len(s.results) : s.results[k].rowId = result.rowId}
  IN IF existing # {}
     THEN [s EXCEPT !.results[SetMin(existing)] = result]
     ELSE [s EXCEPT !.results = Append(s.results, result)]

\* history: saveUpcResult is being called with result
noteSaved(s, result) ==
  [s EXCEPT !.saved[result.rowId] =
     [count |-> Min(s.saved[result.rowId].count + 1, 2), result |-> result]]

\* an exported row: the work item it belongs to, its status, and whether the
\* product fields (asin, brand, matches, rating, reviews, bsr) are empty
exportRows(result) ==
  IF result.nres = 0
  THEN << [rowId |-> result.rowId, status |-> result.status, empty |-> TRUE] >>
  ELSE [c \in 1..result.nres |->
          [rowId |-> result.rowId, status |-> result.status, empty |-> FALSE]]

RECURSIVE flatten(_, _)
flatten(rs, k) ==
  IF k > Len(rs) THEN <<>> ELSE exportRows(rs[k]) \o flatten(rs, k + 1)

\* outcomes without candidates are left out of the export
getAllResultsForExport_SkipEmpty(s) ==
  flatten(SelectSeq(s.results, LAMBDA r : r.nres > 0), 1)

\* getAllResultsForExport: one row per candidate, one empty row for an
\* outcome without candidates
getAllResultsForExport(s) == flatten(s.results, 1)

(***************************************************************************)
(* errorHandler.  A response is [status, data, code]; Nil stands for an    *)
(* absent property.                                                        *)
(***************************************************************************)
UpperChars == "ABCDEFGHIJKLMNOPQRSTUVWXYZ"
LowerChars == "abcdefghijklmnopqrstuvwxyz"

lowerChar(c) ==
  LET hit == {k \in 1..26 : SubSeq(UpperChars, k, k) = c}
  IN IF hit = {} THEN c ELSE LET k == CHOOSE k \in hit : TRUE
                             IN SubSeq(LowerChars, k, k)

RECURSIVE toLowerCase(_)
toLowerCase(str) ==
  IF Len(str) = 0 THEN ""
  ELSE lowerChar(SubSeq(str, 1, 1)) \o toLowerCase(SubSeq(str, 2, Len(str)))

includes(str, part) ==
  \E k \in 0..(Len(str) - Len(part)) : SubSeq(str, k + 1, k + Len(part)) = part

captchaIndicators ==
  { "Type the characters you see in this image",
    "Enter the characters you see below",
    "Sorry, we just need to make sure you're not a robot",
    "api-services-support@amazon.com",
    "To discuss automated access to Amazon data",
    "/captcha/",
    "captcha-delivery" }

blockedIndicators ==
  { "Your request has been blocked", "Access Denied", "Request blocked",
    "automated access", "unusual traffic" }

isCaptchaResponse(html) ==
  \E indicator \in captchaIndicators :
     includes(toLowerCase(html), toLowerCase(indicator))

isBlockedResponse(html) ==
  \E indicator \in blockedIndicators :
     includes(toLowerCase(html), toLowerCase(indicator))

NetworkCodes == {"ECONNREFUSED", "ETIMEDOUT", "ENOTFOUND", "ECONNRESET"}

detectErrorType(response) ==
  IF response.status = 429 THEN "RATE_LIMITED"
  ELSE IF response.status = 503 THEN "SERVICE_UNAVAILABLE"
  ELSE IF response.status = 404 THEN "NOT_FOUND"
  ELSE IF response.data # Nil /\ isCaptchaResponse(response.data) THEN "CAPTCHA"
  ELSE IF response.data # Nil /\ isBlockedResponse(response.data) THEN "BLOCKED"
  ELSE IF response.code \in NetworkCodes THEN "NETWORK"
  ELSE "UNKNOWN"

RETRY_STRATEGIES ==
  [ RATE_LIMITED |-> [maxRetries |-> 3, baseDelay |-> 30000, multiplier |-> 2, maxDelay |-> 300000],
    SERVICE_UNAVAILABLE |-> [maxRetries |-> 3, baseDelay |-> 10000, multiplier |-> 2, maxDelay |-> 60000],
    NETWORK |-> [maxRetries |-> 3, baseDelay |-> 5000, multiplier |-> 2, maxDelay |-> 30000],
    CAPTCHA |-> [maxRetries |-> 1, baseDelay |-> 1800000, multiplier |-> 1, maxDelay |-> 3600000] ]

RECURSIVE Pow(_, _)
Pow(b, e) == IF e = 0 THEN 1 ELSE b * Pow(b, e - 1)

\* the multiplier is not applied
calculateRetryDelay_NoBackoff(errorType, attempt, jitter) ==
  IF errorType \notin DOMAIN RETRY_STRATEGIES THEN 5000
  ELSE LET strategy == RETRY_STRATEGIES[errorType]
       IN Min(strategy.baseDelay + jitter, strategy.maxDelay)

\* calculateRetryDelay; jitter is the value of Math.random() * 1000
calculateRetryDelay(errorType, attempt, jitter) ==
  IF errorType \notin DOMAIN RETRY_STRATEGIES THEN 5000
  ELSE LET strategy == RETRY_STRATEGIES[errorType]
           delay == strategy.baseDelay * Pow(strategy.multiplier, attempt)
       IN Min(delay + jitter, strategy.maxDelay)

\* no error type is retried
isRetryable_Never(errorType, attempt) == FALSE

isRetryable(errorType, attempt) ==
  IF errorType \notin DOMAIN RETRY_STRATEGIES THEN FALSE
  ELSE attempt < RETRY_STRATEGIES[errorType].maxRetries

(***************************************************************************)
(* validator.  Brands and codes are strings; Nil stands for null.          *)
(***************************************************************************)
Digits == "0123456789"
DigitChars == {SubSeq(Digits, k, k) : k \in 1..Len(Digits)}
LowerSet == {SubSeq(LowerChars, k, k) : k \in 1..Len(LowerChars)}
\* the characters \s matches, of those the model writes
SpaceChars == {" ", "\t"}

\* str.replace(/[^...]/g, ''): the characters of keep are kept
RECURSIVE keepChars(_, _)
keepChars(str, keep) ==
  IF Len(str) = 0 THEN ""
  ELSE (IF SubSeq(str, 1, 1) \in keep THEN SubSeq(str, 1, 1) ELSE "")
       \o keepChars(SubSeq(str, 2, Len(str)), keep)

RECURSIVE skipSpaces(_)
skipSpaces(str) ==
  IF Len(str) > 0 /\ SubSeq(str, 1, 1) \in SpaceChars
  THEN skipSpaces(SubSeq(str, 2, Len(str)))
  ELSE str

\* str.replace(/\s+/g, ' ')
RECURSIVE collapseSpaces(_)
collapseSpaces(str) ==
  IF Len(str) = 0 THEN ""
  ELSE IF SubSeq(str, 1, 1) \in SpaceChars
       THEN " " \o collapseSpaces(skipSpaces(str))
       ELSE SubSeq(str, 1, 1) \o collapseSpaces(SubSeq(str, 2, Len(str)))

RECURSIVE trimEnd(_)
trimEnd(str) ==
  IF Len(str) > 0 /\ SubSeq(str, Len(str), Len(str)) \in SpaceChars
  THEN trimEnd(SubSeq(str, 1, Len(str) - 1))
  ELSE str

trim(str) == trimEnd(skipSpaces(str))

normalizeBrandName(brand) ==
  trim(collapseSpaces(keepChars(toLowerCase(brand),
                                LowerSet \cup DigitChars \cup SpaceChars)))

normalizeUpc(upc) == keepChars(upc, DigitChars)

\* the normalized brands have to be equal
validateBrand_Exact(scrapedBrand, inputBrand) ==
  IF scrapedBrand \in {Nil, ""} \/ inputBrand \in {Nil, ""} THEN FALSE
  ELSE normalizeBrandName(scrapedBrand) = normalizeBrandName(inputBrand)

validateBrand(scrapedBrand, inputBrand) ==
  IF scrapedBrand \in {Nil, ""} \/ inputBrand \in {Nil, ""} THEN FALSE
  ELSE includes(normalizeBrandName(scrapedBrand), normalizeBrandName(inputBrand))

validateUpc(scrapedUpc, inputUpc) ==
  IF scrapedUpc \in {Nil, ""} \/ inputUpc \in {Nil, ""} THEN FALSE
  ELSE includes(normalizeUpc(scrapedUpc), normalizeUpc(inputUpc))

\* product is [brand, upc]
validateProduct(product, inputBrand, inputUpc) ==
  [ brandMatch |-> validateBrand(product.brand, inputBrand),
    upcMatch |-> validateUpc(product.upc, inputUpc) ]

(***************************************************************************)
(* The collaborators.  performSearch (one fetch of a search page) answers   *)
(* ok with the number of asins parsed from the page, fails with the error  *)
(* text of fetchPage, or throws; scrapeProductPage answers ok, fails with  *)
(* the error text of fetchPage, or throws.  The error text of fetchPage is *)
(* one of its own texts or the message of the error the transport threw,   *)
(* which is any text.                                                      *)
(***************************************************************************)
MaxAsins == 3

ChallengeText == "Enter the characters you see below"
CaptchaDetectedText == "CAPTCHA_DETECTED"
Http404Text == "HTTP 404"
ProductNotFoundText == "Product not found"

Response(status, data, code) == [status |-> status, data |-> data, code |-> code]

RateLimitError == Response(429, Nil, Nil)
NetworkError == Response(0, Nil, "ECONNRESET")
PlainError == Response(0, Nil, Nil)

Ok(n) == [kind |-> "ok", asins |-> n, error |-> Nil, err |-> PlainError]
Fail(text) == [kind |-> "fail", asins |-> 0, error |-> text, err |-> PlainError]
Throw(e) == [kind |-> "throw", asins |-> 0, error |-> Nil, err |-> e]

ErrorTexts == {ChallengeText, CaptchaDetectedText, Http404Text, ProductNotFoundText}
ThrownErrors == {RateLimitError, NetworkError, PlainError}

\* detectErrorType on the responses the worker builds, evaluated once
ErrorTypeOfText == [t \in ErrorTexts |-> detectErrorType(Response(0, t, Nil))]
ErrorTypeOfThrown == [e \in ThrownErrors |-> detectErrorType(e)]

\* handleScrapingError: the fields the worker reads
handleScrapingError(errorType, attempt) ==
  [ errorType |-> errorType, shouldRetry |-> isRetryable(errorType, attempt) ]

(***************************************************************************)
(* worker.  A loop is [pc, row, attempt, n, i, pa, nres, cC, cE, rows,     *)
(* res]: the await it is suspended in, the rowId of nextUpc, attempt, the  *)
(* number of asins of the search result, the index i and productAttempt of *)
(* the candidate loop, the length of result.results, consecutiveCaptchas,  *)
(* consecutiveErrors, the rows generateCsv is writing and the result of    *)
(* the first performSearch of searchAmazon (ok or fail).                   *)
(***************************************************************************)
MAX_ATTEMPTS == 3
MAX_CONSECUTIVE_CAPTCHAS == 3
MAX_CONSECUTIVE_ERRORS == 10

CaptchaMsg == "CAPTCHA detected - job paused. Please wait 30-60 minutes before resuming."
ErrorsMsg == "Too many errors (10). Please check network connectivity."
CrashMsg == "Worker crashed: internal error"

Workers == 1..MaxWorkers

IdleWorker ==
  [ pc |-> "idle", row |-> 0, attempt |-> 0, n |-> 0, i |-> 0, pa |-> 0,
    nres |-> 0, cC |-> 0, cE |-> 0, rows |-> <<>>, res |-> Nil,
    searched |-> 0, scraped |-> [k \in 1..MaxAsins |-> 0] ]

Active(ws) == {w \in DOMAIN ws : ws[w].pc # "idle"}

\* the worker loop returns
exit(s, w) == [s EXCEPT !.workers[w] = IdleWorker]

suspend(s, w, pc) == [s EXCEPT !.workers[w].pc = pc]

\* processUpc awaits searchAmazon(upc); history: searched counts the calls
\* made for the item in hand
awaitSearchAmazon(s, w) ==
  suspend([s EXCEPT !.workers[w].searched = @ + 1], w, "search")

\* processUpc awaits scrapeProductPage(asin) for candidate i; history:
\* scraped counts the calls made for each candidate of the item in hand
awaitScrapeProductPage(s, w) ==
  suspend([s EXCEPT !.workers[w].pa = 0,
                    !.workers[w].scraped[s.workers[w].i + 1] = Min(@ + 1, MAX_ATTEMPTS)],
          w, "product")

\* processUpc returned: its locals and nextUpc are dead, the counters live on
betweenItems(s, w, pc) ==
  [s EXCEPT !.workers[w] = [IdleWorker EXCEPT !.pc = pc,
                                              !.cC = s.workers[w].cC,
                                              !.cE = s.workers[w].cE]]

resultOf(s, w, status, attempts) ==
  [rowId |-> s.workers[w].row, status |-> status, nres |-> s.workers[w].nres,
   attempts |-> attempts]

\* runWorker, from the return of processUpc to the await of the delay
afterItem(s, w, status) ==
  LET me == s.workers[w]
  IN IF status = "CAPTCHA"
     THEN LET s1 == [s EXCEPT !.workers[w].cC = me.cC + 1, !.workers[w].cE = me.cE + 1]
          IN IF me.cC + 1 >= MAX_CONSECUTIVE_CAPTCHAS
             THEN exit(updateUpcStatus(updateJobStatus(s1, "PAUSED", CaptchaMsg).s,
                                       me.row, "PENDING"), w)
             ELSE betweenItems(updateUpcStatus(s1, me.row, "PENDING"), w, "captchaDelay")
     ELSE LET s1 == IF status = "FAILED"
                    THEN [s EXCEPT !.workers[w].cE = me.cE + 1]
                    ELSE [s EXCEPT !.workers[w].cC = 0, !.workers[w].cE = 0]
          IN IF status = "FAILED" /\ me.cE + 1 >= MAX_CONSECUTIVE_ERRORS
             THEN exit(updateJobStatus(s1, "PAUSED", ErrorsMsg).s, w)
             ELSE LET stats == getUpcStats(s1)
                  IN betweenItems(updateJobProgress(s1, stats.done + stats.failed + stats.notFound,
                                                    stats.failed),
                                  w, "upcDelay")

\* processUpc: the item ends FAILED, result.attempts is attempts
failUpc(s, w, attempts) ==
  afterItem(saveUpcResult(noteSaved(markUpcFailed(s, s.workers[w].row),
                                    resultOf(s, w, "FAILED", attempts)),
                          resultOf(s, w, "FAILED", attempts)),
            w, "FAILED")

\* processUpc: the head of while (attempt < MAX_ATTEMPTS)
whileAttempt(s, w) ==
  IF s.workers[w].attempt < MAX_ATTEMPTS
  THEN awaitSearchAmazon(s, w)
  ELSE failUpc(s, w, s.workers[w].attempt)

\* the exception leaves processUpc and runWorker rejects
catchError_Rethrow(s, w, error) ==
  exit(updateJobStatus(s, "FAILED", CrashMsg).s, w)

\* processUpc: the catch block
catchError(s, w, error) ==
  LET me == s.workers[w]
      errorInfo == handleScrapingError(ErrorTypeOfThrown[error], me.attempt)
  IN IF errorInfo.shouldRetry
     THEN suspend([s EXCEPT !.workers[w].attempt = me.attempt + 1], w, "retrySleep")
     ELSE failUpc(s, w, me.attempt + 1)

\* scrapeProductPage is called without the delay before it
forAsins_NoDelay(s, w) ==
  LET me == s.workers[w]
  IN IF me.i < me.n
     THEN awaitScrapeProductPage(s, w)
     ELSE afterItem(saveUpcResult(noteSaved(markUpcDone(s, me.row),
                                            resultOf(s, w, "DONE", me.attempt + 1)),
                                  resultOf(s, w, "DONE", me.attempt + 1)),
                    w, "DONE")

\* processUpc: the head of the for loop over searchResult.asins
forAsins(s, w) ==
  LET me == s.workers[w]
  IN IF me.i < me.n
     THEN suspend(s, w, "productDelay")
     ELSE afterItem(saveUpcResult(noteSaved(markUpcDone(s, me.row),
                                            resultOf(s, w, "DONE", me.attempt + 1)),
                                  resultOf(s, w, "DONE", me.attempt + 1)),
                    w, "DONE")

\* processUpc, entered with nextUpc
processUpc(s, w, rowId) ==
  whileAttempt([markUpcInProgress(s, rowId) EXCEPT
                  !.workers[w].row = rowId, !.workers[w].attempt = 0,
                  !.workers[w].n = 0, !.workers[w].i = 0,
                  !.workers[w].pa = 0, !.workers[w].nres = 0,
                  !.workers[w].searched = 0,
                  !.workers[w].scraped = [k \in 1..MaxAsins |-> 0]], w)

\* history: generateCsv is being called
noteExport(s) == [s EXCEPT !.exports = Min(s.exports + 1, 2)]

\* runWorker at "no more UPCs": the loop awaits generateCsv, which is
\* suspended in writeRecords, or has returned at once when there is nothing
\* to export
noMoreUpcs(s, w) ==
  IF isAllUpcsProcessed(s)
  THEN LET rows == getAllResultsForExport(s)
       IN [betweenItems(noteExport(s), w, "csv") EXCEPT !.workers[w].rows = rows]
  ELSE exit(s, w)

\* the job status is not looked at
loopTop_NoCheck(s, w) ==
  LET g == getJob(s)
  IN IF g.job = Null THEN exit(g.s, w)
     ELSE LET nextUpc == getNextPendingUpc(g.s)
          IN IF nextUpc = 0 THEN noMoreUpcs(g.s, w)
             ELSE processUpc(g.s, w, nextUpc)

\* runWorker: one pass from the head of while (true)
loopTop(s, w) ==
  LET g == getJob(s)
  IN IF g.job = Null THEN exit(g.s, w)
     ELSE IF g.job.status \in {"PAUSED", "COMPLETED", "FAILED"} THEN exit(g.s, w)
     ELSE LET nextUpc == getNextPendingUpc(g.s)
          IN IF nextUpc = 0 THEN noMoreUpcs(g.s, w)
             ELSE processUpc(g.s, w, nextUpc)

\* runWorker resumed when writeRecords settled: the file holds the rows
csvWritten(s, w) ==
  exit(updateJobStatus([s EXCEPT !.csv = s.workers[w].rows], "COMPLETED", Nil).s, w)

\* the loop returns without completing the job
csvFailed_LeftRunning(s, w) == exit(s, w)

\* runWorker resumed when writeRecords rejected: generateCsv answers without
\* success and no file is written
csvFailed(s, w) ==
  exit(updateJobStatus(s, "COMPLETED", Nil).s, w)

runWorker(s, w) ==
  loopTop([updateJobStatus(s, "RUNNING", Nil).s EXCEPT
             !.workers[w] = [IdleWorker EXCEPT !.pc = "run"]], w)

\* startWorker launches the loop in the lowest free slot
startWorker(s) ==
  runWorker(s, SetMin(Workers \ Active(s.workers)))

\* the catch handler attached by startWorker
workerCrashed(s, w) ==
  exit(updateJobStatus(s, "FAILED", CrashMsg).s, w)

\* the loop is started without the reset
resumeRunningJobs_NoReset(s) ==
  LET runningJobs == getJobsToResume(s)
  IN IF runningJobs.jobs = {} THEN runningJobs.s
     ELSE startWorker(runningJobs.s)

resumeRunningJobs(s) ==
  LET runningJobs == getJobsToResume(s)
  IN IF runningJobs.jobs = {} THEN runningJobs.s
     ELSE startWorker(resetInProgressUpcs(runningJobs.s))

\* processUpc resumed with the answer of searchAmazon
onSearchResult(s, w, o) ==
  LET me == s.workers[w]
  IN IF o.kind = "throw" THEN catchError(s, w, o.err)
     ELSE IF o.kind = "fail"
     THEN LET errorInfo == handleScrapingError(ErrorTypeOfText[o.error], me.attempt)
          IN IF errorInfo.errorType = "CAPTCHA" THEN afterItem(s, w, "CAPTCHA")
             ELSE IF errorInfo.shouldRetry
                  THEN suspend([s EXCEPT !.workers[w].attempt = me.attempt + 1], w, "retrySleep")
                  ELSE failUpc(s, w, 0)
     ELSE IF o.asins = 0
     THEN afterItem(saveUpcResult(noteSaved(markUpcNotFound(s, me.row),
                                            resultOf(s, w, "NOT_FOUND", 0)),
                                  resultOf(s, w, "NOT_FOUND", 0)),
                    w, "NOT_FOUND")
     ELSE forAsins([s EXCEPT !.workers[w].n = o.asins, !.workers[w].i = 0], w)

\* searchAmazon resumed with the answer of performSearch(upc): a page with
\* asins is the answer of searchAmazon, anything else leads to the fallback
searchAmazon(s, w, o) ==
  IF o.kind = "throw" THEN onSearchResult(s, w, o)
  ELSE IF o.kind = "ok" /\ o.asins > 0 THEN onSearchResult(s, w, o)
  ELSE suspend([s EXCEPT !.workers[w].res = o.kind], w, "fallback")

\* searchAmazon resumed with the answer of performSearch('00' + upc): a page
\* with asins is the answer, anything else is answered as success without
\* asins
searchAmazonFallback(s, w, o) ==
  IF o.kind = "throw" THEN onSearchResult(s, w, o)
  ELSE IF o.kind = "ok" /\ o.asins > 0 THEN onSearchResult(s, w, o)
  ELSE onSearchResult(s, w, Ok(0))

\* on CAPTCHA the candidates gathered so far are saved as a FAILED outcome
onProductResult_SaveOnCaptcha(s, w, o) ==
  LET me == s.workers[w]
  IN IF o.kind = "throw" THEN catchError(s, w, o.err)
     ELSE IF o.kind = "ok"
     THEN forAsins([s EXCEPT !.workers[w].nres = me.nres + 1,
                             !.workers[w].i = me.i + 1], w)
     ELSE LET errorInfo == handleScrapingError(ErrorTypeOfText[o.error], me.pa)
          IN IF errorInfo.errorType = "CAPTCHA"
             THEN afterItem(saveUpcResult(s, resultOf(s, w, "FAILED", 0)), w, "CAPTCHA")
             ELSE IF errorInfo.shouldRetry /\ me.pa < 1
                  THEN suspend([s EXCEPT !.workers[w].pa = me.pa + 1], w, "productRetrySleep")
                  ELSE forAsins([s EXCEPT !.workers[w].i = me.i + 1], w)

\* a candidate that cannot be extracted makes the item FAILED
onProductResult_FailOnError(s, w, o) ==
  LET me == s.workers[w]
  IN IF o.kind = "throw" THEN catchError(s, w, o.err)
     ELSE IF o.kind = "ok"
     THEN forAsins([s EXCEPT !.workers[w].nres = me.nres + 1,
                             !.workers[w].i = me.i + 1], w)
     ELSE LET errorInfo == handleScrapingError(ErrorTypeOfText[o.error], me.pa)
          IN IF errorInfo.errorType = "CAPTCHA" THEN afterItem(s, w, "CAPTCHA")
             ELSE failUpc(s, w, me.attempt + 1)

\* processUpc resumed with the answer of scrapeProductPage
onProductResult(s, w, o) ==
  LET me == s.workers[w]
  IN IF o.kind = "throw" THEN catchError(s, w, o.err)
     ELSE IF o.kind = "ok"
     THEN forAsins([s EXCEPT !.workers[w].nres = me.nres + 1,
                             !.workers[w].i = me.i + 1], w)
     ELSE LET errorInfo == handleScrapingError(ErrorTypeOfText[o.error], me.pa)
          IN IF errorInfo.errorType = "CAPTCHA" THEN afterItem(s, w, "CAPTCHA")
             ELSE IF errorInfo.shouldRetry /\ me.pa < 1
                  THEN suspend([s EXCEPT !.workers[w].pa = me.pa + 1], w, "productRetrySleep")
                  ELSE forAsins([s EXCEPT !.workers[w].i = me.i + 1], w)

\* the loop is started before the reset
resumeJob_StartBeforeReset(s) ==
  resetInProgressUpcs(startWorker(updateJobStatus(s, "RUNNING", Nil).s))

\* jobController.resumeJob, accepted
resumeJob(s) ==
  startWorker(updateJobStatus(resetInProgressUpcs(s), "RUNNING", Nil).s)

\* the status of the job is not looked at
resumeJobRequest_NoStatusCheck(s) ==
  LET g == getJob(s)
  IN IF g.job = Null THEN [s |-> g.s, code |-> 404]
     ELSE [s |-> resumeJob(g.s), code |-> 200]

\* jobController.resumeJob: the store and the HTTP status of the response
resumeJobRequest(s) ==
  LET g == getJob(s)
  IN IF g.job = Null THEN [s |-> g.s, code |-> 404]
     ELSE IF g.job.status # "PAUSED" /\ g.job.status # "QUEUED"
          THEN [s |-> g.s, code |-> 409]
          ELSE [s |-> resumeJob(g.s), code |-> 200]

\* the status of the job is not looked at
pauseJobRequest_NoStatusCheck(s) ==
  LET g == getJob(s)
  IN IF g.job = Null THEN [s |-> g.s, code |-> 404]
     ELSE [s |-> updateJobStatus(g.s, "PAUSED", Nil).s, code |-> 200]

\* jobController.pauseJob: the store and the HTTP status of the response
pauseJobRequest(s) ==
  LET g == getJob(s)
  IN IF g.job = Null THEN [s |-> g.s, code |-> 404]
     ELSE IF g.job.status # "RUNNING"
          THEN [s |-> g.s, code |-> 409]
          ELSE [s |-> updateJobStatus(g.s, "PAUSED", Nil).s, code |-> 200]

(***************************************************************************)
(* The external world of a run: how many work items the uploaded file      *)
(* has, what the collaborators can answer, whether clients pause, the      *)
(* process crashes or the loop hits an internal error, how many loops the  *)
(* model lets run at once, whether clients send pause and resume requests  *)
(* in any state of the job (probe), whether the job gets deleted, and how  *)
(* writeRecords can settle (writes: TRUE for written, FALSE for failed).   *)
(***************************************************************************)
Site(items, search, product, pause, crash, throws, loops, probe, delete, writes) ==
  [ items |-> items, search |-> search, product |-> product, pause |-> pause,
    crash |-> crash, throws |-> throws, loops |-> loops, probe |-> probe,
    delete |-> delete, writes |-> writes ]

\* clients pause and resume while loops are suspended
Race ==
  Site({MaxItems}, {Ok(0)}, {Ok(1)},
       TRUE, FALSE, FALSE, MaxWorkers, FALSE, FALSE, {TRUE})

\* the site answers with challenges while clients pause and resume
Challenged ==
  Site({2}, {Ok(1)}, {Ok(1), Fail(ChallengeText)},
       TRUE, FALSE, FALSE, 2, FALSE, FALSE, {TRUE})

\* the process crashes and restarts, the loop hits internal errors
Recovery ==
  Site(1..MaxItems, {Ok(0), Ok(1), Fail(Http404Text)},
       {Ok(1), Fail(ProductNotFoundText), Fail(ChallengeText)},
       TRUE, TRUE, TRUE, 1, FALSE, FALSE, BOOLEAN)

\* one work item, every answer of the collaborators
Single ==
  Site({1},
       {Ok(n) : n \in 0..MaxAsins} \cup {Fail(t) : t \in ErrorTexts}
          \cup {Throw(e) : e \in ThrownErrors},
       {Ok(1)} \cup {Fail(t) : t \in ErrorTexts} \cup {Throw(e) : e \in ThrownErrors},
       FALSE, FALSE, FALSE, 1, FALSE, FALSE, BOOLEAN)

\* a long file on a site that finds nothing or fails
Batch ==
  Site({BatchItems}, {Ok(0), Throw(PlainError)}, {Ok(1)},
       FALSE, FALSE, FALSE, 1, FALSE, FALSE, {TRUE})

\* clients send pause and resume requests whatever the status of the job
Clients ==
  Site({2}, {Ok(0), Throw(PlainError)}, {Ok(1)},
       TRUE, FALSE, TRUE, 2, TRUE, FALSE, {TRUE})

\* the job is deleted at any moment
Deleted ==
  Site({2}, {Ok(0), Ok(1)}, {Ok(1)},
       TRUE, FALSE, FALSE, 1, FALSE, TRUE, {TRUE})

\* the only failure of the search is a thrown error with status 429
Throttled ==
  Site({1}, {Throw(RateLimitError), Ok(2)}, {Ok(1), Fail(ProductNotFoundText)},
       FALSE, FALSE, FALSE, 1, FALSE, FALSE, {TRUE})

\* every search finds nothing
Empty ==
  Site(1..EmptyItems, {Ok(0)}, {Ok(1)},
       FALSE, FALSE, FALSE, 1, FALSE, FALSE, {TRUE})

\* a long file on a site where a search either throws or leads to a
\* challenged product page
Degraded ==
  Site({DegradedItems}, {Ok(1), Throw(PlainError)}, {Fail(ChallengeText)},
       FALSE, FALSE, FALSE, 1, FALSE, FALSE, {TRUE})

\* a site that finds nothing or challenges the product page, at will, while
\* clients pause and resume
Stubborn ==
  Site({LoopItems}, {Ok(0), Ok(1)}, {Fail(ChallengeText)},
       TRUE, FALSE, FALSE, 2, FALSE, FALSE, BOOLEAN)

Sites ==
  {Race, Challenged, Recovery, Single, Batch, Clients, Deleted, Throttled, Empty,
   Degraded}

S == [jobs |-> jobs, metadata |-> metadata, upcs |-> upcs, results |-> results,
      csv |-> csv, exports |-> exports, workers |-> workers, saved |-> saved,
      now |-> now]

Commit(s) ==
  /\ jobs' = s.jobs
  /\ metadata' = s.metadata
  /\ upcs' = s.upcs
  /\ results' = s.results
  /\ csv' = s.csv
  /\ exports' = s.exports
  /\ workers' = s.workers
  /\ saved' = s.saved

\* last notes the request handler or the sweep that ran in the latest turn
NoNote == [op |-> "none"]

NeverSaved == [count |-> 0, result |-> Null]

Init ==
  /\ up = TRUE
  /\ jobs = Null
  /\ metadata = Null
  /\ upcs = <<>>
  /\ results = <<>>
  /\ csv = <<>>
  /\ exports = 0
  /\ workers = [w \in Workers |-> IdleWorker]
  /\ site \in Sites
  /\ saved = <<>>
  /\ deleted = FALSE
  /\ now = 0
  /\ last = NoNote

\* generateCsv found nothing to export and returned without awaiting: the
\* loop that awaits it is resumed before any other callback runs
Draining == \E w \in Workers : workers[w].pc = "csv" /\ workers[w].rows = <<>>

\* the process is up and the next callback can run
Ready == up /\ ~Draining

\* jobController.uploadExcel -> jobManager.createJob
CreateJob(n) ==
  /\ Ready /\ metadata = Null /\ ~deleted
  /\ jobs' = newJob(n)
  /\ metadata' = newJob(n)
  /\ upcs' = [k \in 1..n |-> [rowId |-> k, status |-> "PENDING"]]
  /\ results' = <<>>
  /\ saved' = [k \in 1..n |-> NeverSaved]
  /\ last' = [op |-> "createJob"]
  /\ UNCHANGED <<now, up, csv, exports, workers, site, deleted>>

\* POST /api/jobs/:id/pause; requests that are refused are only sent
\* where clients probe
PauseJob ==
  /\ Ready /\ site.pause
  /\ LET r == pauseJobRequest(S)
     IN /\ r.code = 200 \/ site.probe
        /\ Commit(r.s)
        /\ last' = [op |-> "pauseJob", code |-> r.code]
  /\ UNCHANGED <<now, up, site, deleted>>

\* POST /api/jobs/:id/resume; requests that are refused are only sent
\* where clients probe
ResumeJob ==
  /\ Ready
  /\ Cardinality(Active(workers)) < site.loops
  /\ LET r == resumeJobRequest(S)
     IN /\ r.code = 200 \/ site.probe
        /\ Commit(r.s)
        /\ last' = [op |-> "resumeJob", code |-> r.code,
                    resetCount |-> IF r.code = 200 THEN CountStatus(S, "IN_PROGRESS")
                                   ELSE 0]
  /\ UNCHANGED <<now, up, site, deleted>>

\* jobManager.deleteJob
DeleteJob ==
  /\ Ready /\ site.delete
  /\ metadata # Null
  /\ Commit([deleteJob(S) EXCEPT !.saved = [k \in DOMAIN saved |-> NeverSaved]])
  /\ deleted' = TRUE
  /\ last' = [op |-> "deleteJob"]
  /\ UNCHANGED <<now, up, site>>

\* history: the answer o is classified CAPTCHA ("captchaBreaker" when it is
\* the one that makes consecutiveCaptchas of loop w reach
\* MAX_CONSECUTIVE_CAPTCHAS); gathered is the length of result.results
captchaNote(w, o) ==
  IF o.kind = "fail" /\ ErrorTypeOfText[o.error] = "CAPTCHA"
  THEN [op |-> IF workers[w].cC + 1 >= MAX_CONSECUTIVE_CAPTCHAS
               THEN "captchaBreaker" ELSE "captcha",
        row |-> workers[w].row, w |-> w, gathered |-> workers[w].nres,
        error |-> o.error]
  ELSE [op |-> "scrapeProductPage", row |-> workers[w].row, w |-> w,
        error |-> o.error]

\* the fetch of performSearch(upc) settled
SearchReturns(w, o) ==
  /\ Ready /\ workers[w].pc = "search"
  /\ Commit(searchAmazon(S, w, o))
  /\ last' = [op |-> "performSearch", row |-> workers[w].row, w |-> w,
              kind |-> o.kind]
  /\ UNCHANGED <<now, up, site, deleted>>

\* the fetch of performSearch('00' + upc) settled
FallbackReturns(w, o) ==
  /\ Ready /\ workers[w].pc = "fallback"
  /\ Commit(searchAmazonFallback(S, w, o))
  /\ last' = [op |-> "searchAmazon", row |-> workers[w].row, w |-> w,
              first |-> workers[w].res, fallback |-> o.kind, error |-> o.error]
  /\ UNCHANGED <<now, up, site, deleted>>

RetrySleepDone(w) ==
  /\ Ready /\ workers[w].pc = "retrySleep"
  /\ Commit(whileAttempt(S, w))
  /\ last' = NoNote
  /\ UNCHANGED <<now, up, site, deleted>>

\* searchToProductDelay / productToProductDelay elapsed: scrapeProductPage is called
ProductDelayDone(w) ==
  /\ Ready /\ workers[w].pc = "productDelay"
  /\ Commit(awaitScrapeProductPage(S, w))
  /\ last' = NoNote
  /\ UNCHANGED <<now, up, site, deleted>>

ProductReturns(w, o) ==
  /\ Ready /\ workers[w].pc = "product"
  /\ Commit(onProductResult(S, w, o))
  /\ last' = captchaNote(w, o)
  /\ UNCHANGED <<now, up, site, deleted>>

\* generateCsv returns, with success when there were rows and writeRecords
\* wrote them, and the loop goes on to complete the job
CsvDone(w, written) ==
  /\ up /\ workers[w].pc = "csv"
  /\ LET success == written /\ workers[w].rows # <<>>
     IN /\ Commit(IF success THEN csvWritten(S, w) ELSE csvFailed(S, w))
        /\ last' = [op |-> "generateCsv", written |-> success]
  /\ UNCHANGED <<now, up, site, deleted>>

CaptchaDelayDone(w) ==
  /\ Ready /\ workers[w].pc = "captchaDelay"
  /\ Commit(loopTop(S, w))
  /\ last' = NoNote
  /\ UNCHANGED <<now, up, site, deleted>>

UpcDelayDone(w) ==
  /\ Ready /\ workers[w].pc = "upcDelay"
  /\ Commit(loopTop(S, w))
  /\ last' = NoNote
  /\ UNCHANGED <<now, up, site, deleted>>

\* the loop is resumed and an operation outside the try block of processUpc
\* throws before it changed anything: runWorker rejects
WorkerThrows(w) ==
  /\ Ready /\ site.throws
  /\ workers[w].pc # "idle"
  /\ Commit(workerCrashed(S, w))
  /\ last' = [op |-> "workerCrashed", w |-> w]
  /\ UNCHANGED <<now, up, site, deleted>>

\* the process dies: the in-memory Map and every loop are gone
Crash ==
  /\ Ready /\ site.crash
  /\ up' = FALSE
  /\ jobs' = Null
  /\ workers' = [w \in Workers |-> IdleWorker]
  /\ last' = NoNote
  /\ UNCHANGED <<now, metadata, upcs, results, csv, exports, site, saved, deleted>>

\* the turn of loop w that is resumed with the answer o of a fetch
fetchTurn(s, w, o) ==
  IF s.workers[w].pc = "search" THEN searchAmazon(s, w, o)
  ELSE IF s.workers[w].pc = "fallback" THEN searchAmazonFallback(s, w, o)
  ELSE onProductResult(s, w, o)

\* the process dies inside the turn in which processUpc ends an item: markUpc*
\* has written the status of the item to the file of the items, saveUpcResult
\* has not yet written the file of the outcomes
CrashBetweenWrites(w, o) ==
  /\ Ready /\ site.crash
  /\ \/ workers[w].pc \in {"search", "fallback"} /\ o \in site.search
     \/ workers[w].pc = "product" /\ o \in site.product
  /\ LET t == fetchTurn(S, w, o)
         rowId == workers[w].row
     IN /\ rowId \in DOMAIN upcs
        /\ t.saved[rowId].count > saved[rowId].count
        /\ upcs' = updateUpcStatus(S, rowId, t.saved[rowId].result.status).upcs
        /\ last' = [op |-> "crashBetweenWrites", row |-> rowId]
  /\ up' = FALSE
  /\ jobs' = Null
  /\ workers' = [v \in Workers |-> IdleWorker]
  /\ UNCHANGED <<now, metadata, results, csv, exports, site, saved, deleted>>

\* the process starts: the app.listen callback runs resumeRunningJobs
Restart ==
  /\ ~up
  /\ up' = TRUE
  /\ Commit(resumeRunningJobs(S))
  /\ last' = [op |-> "resumeRunningJobs",
              resetCount |-> IF getJobsToResume(S).jobs = {} THEN 0
                             ELSE CountStatus(S, "IN_PROGRESS")]
  /\ UNCHANGED <<now, site, deleted>>

Next ==
  \/ \E n \in site.items : CreateJob(n)
  \/ PauseJob
  \/ ResumeJob
  \/ DeleteJob
  \/ \E w \in Workers, o \in site.search : SearchReturns(w, o)
  \/ \E w \in Workers, o \in site.search : FallbackReturns(w, o)
  \/ \E w \in Workers : RetrySleepDone(w)
  \/ \E w \in Workers : ProductDelayDone(w)
  \/ \E w \in Workers, o \in site.product : ProductReturns(w, o)
  \/ \E w \in Workers, written \in site.writes : CsvDone(w, written)
  \/ \E w \in Workers : CaptchaDelayDone(w)
  \/ \E w \in Workers : UpcDelayDone(w)
  \/ \E w \in Workers : WorkerThrows(w)
  \/ Crash
  \/ \E w \in Workers, o \in site.search \cup site.product : CrashBetweenWrites(w, o)
  \/ Restart

Spec == Init /\ [][Next]_vars

(***************************************************************************)
(* A long file processed by one loop with no client interference.          *)
(***************************************************************************)
InitBatch == Init /\ site = Batch

NextBatch ==
  \/ \E n \in site.items : CreateJob(n)
  \/ ResumeJob
  \/ \E w \in Workers, o \in site.search : SearchReturns(w, o)
  \/ \E w \in Workers, o \in site.search : FallbackReturns(w, o)
  \/ \E w \in Workers, written \in site.writes : CsvDone(w, written)
  \/ \E w \in Workers : UpcDelayDone(w)

SpecBatch == InitBatch /\ [][NextBatch]_vars

(***************************************************************************)
(* A site that finds nothing, one loop, no client interference; the        *)
(* collaborators answer and the timers fire.                               *)
(***************************************************************************)
InitEmpty == Init /\ site = Empty

\* a loop suspended at pc is resumed in this step
Resumed(pc) ==
  \E w \in Workers : workers[w].pc = pc /\ workers'[w] # workers[w]

\* Weak fairness of the action that resumes a loop suspended at pc, written
\* out: the action is enabled exactly when some loop is suspended at pc, and
\* it is the only action that changes such a loop.
Settles(pc) ==
  \/ []<>(\A w \in Workers : workers[w].pc # pc)
  \/ []<><<Resumed(pc)>>_vars

\* searchAmazon answers, the timer of upcToUpcDelay fires, writeRecords
\* settles
SpecEmpty ==
  /\ InitEmpty
  /\ [][NextBatch]_vars
  /\ Settles("search")
  /\ Settles("fallback")
  /\ Settles("upcDelay")
  /\ Settles("csv")

(***************************************************************************)
(* A stubborn site, clients that pause and resume while loops are          *)
(* suspended, no crash: whatever the collaborators answer, they answer,    *)
(* and every timer fires.                                                  *)
(***************************************************************************)
InitLoop ==
  /\ up = TRUE
  /\ jobs = Null
  /\ metadata = Null
  /\ upcs = <<>>
  /\ results = <<>>
  /\ csv = <<>>
  /\ exports = 0
  /\ workers = [w \in Workers |-> IdleWorker]
  /\ site = Stubborn
  /\ saved = <<>>
  /\ deleted = FALSE
  /\ now = 0
  /\ last = NoNote

NextLoop ==
  \/ \E n \in site.items : CreateJob(n)
  \/ PauseJob
  \/ ResumeJob
  \/ \E w \in Workers, o \in site.search : SearchReturns(w, o)
  \/ \E w \in Workers, o \in site.search : FallbackReturns(w, o)
  \/ \E w \in Workers : ProductDelayDone(w)
  \/ \E w \in Workers, o \in site.product : ProductReturns(w, o)
  \/ \E w \in Workers, written \in site.writes : CsvDone(w, written)
  \/ \E w \in Workers : CaptchaDelayDone(w)
  \/ \E w \in Workers : UpcDelayDone(w)

\* Weak fairness of the continuation of loop w suspended at pc, written out:
\* the continuation is enabled exactly when loop w is suspended at pc, and it
\* is the only action that changes the record of such a loop.
Awaits(w, pc) ==
  \/ []<>(workers[w].pc # pc)
  \/ []<><<workers[w].pc = pc /\ workers'[w] # workers[w]>>_vars

\* Every fetch that loop w awaits is answered, every timer it awaits fires
\* and writeRecords settles, and the event loop runs the continuation: a
\* launched loop does not stay suspended forever.
LoopRuns(w) ==
  /\ Awaits(w, "search")
  /\ Awaits(w, "fallback")
  /\ WF_vars(ProductDelayDone(w))
  /\ Awaits(w, "product")
  /\ WF_vars(\E written \in site.writes : CsvDone(w, written))
  /\ WF_vars(CaptchaDelayDone(w))
  /\ WF_vars(UpcDelayDone(w))

SpecLoop ==
  /\ InitLoop
  /\ [][NextLoop]_vars
  /\ \A w \in Workers : LoopRuns(w)

(***************************************************************************)
(* The job registry on its own: any caller, any requested status.          *)
(***************************************************************************)
RegItems == 2
Messages == {Nil, CaptchaMsg, ErrorsMsg, CrashMsg}

InitRegistry ==
  /\ up = TRUE
  /\ jobs = newJob(RegItems)
  /\ metadata = newJob(RegItems)
  /\ upcs = [k \in 1..RegItems |-> [rowId |-> k, status |-> "PENDING"]]
  /\ results = <<>>
  /\ csv = <<>>
  /\ exports = 0
  /\ workers = [w \in Workers |-> IdleWorker]
  /\ site = Single
  /\ saved = [k \in 1..RegItems |-> NeverSaved]
  /\ deleted = FALSE
  /\ now = 0
  /\ last = NoNote

CallUpdateJobStatus(newStatus, errorMessage) ==
  /\ Commit(updateJobStatus(S, newStatus, errorMessage).s)
  /\ last' = [op |-> "updateJobStatus", newStatus |-> newStatus,
              jobsBefore |-> jobs, metadataBefore |-> metadata,
              ret |-> updateJobStatus(S, newStatus, errorMessage).ret]
  /\ UNCHANGED <<now, up, site, deleted>>

CallUpdateJobProgress(processed, failed) ==
  /\ Commit(updateJobProgress(S, processed, failed))
  /\ last' = [op |-> "updateJobProgress"]
  /\ UNCHANGED <<now, up, site, deleted>>

\* the process restarts: the in-memory Map is empty again
CallRestart ==
  /\ jobs # Null
  /\ jobs' = Null
  /\ last' = NoNote
  /\ UNCHANGED <<now, up, metadata, upcs, results, csv, exports, workers, site, saved, deleted>>

\* time passes
Tick ==
  /\ now < MaxClock
  /\ now' = now + 1
  /\ last' = [op |-> "tick"]
  /\ UNCHANGED <<up, jobs, metadata, upcs, results, csv, exports, workers, site, saved,
                 deleted>>

NextRegistry ==
  \/ Tick
  \/ \E newStatus \in JOB_STATUS, errorMessage \in Messages :
        CallUpdateJobStatus(newStatus, errorMessage)
  \/ \E processed \in 0..RegItems, failed \in 0..RegItems :
        failed <= processed /\ CallUpdateJobProgress(processed, failed)
  \/ CallRestart

SpecRegistry == InitRegistry /\ [][NextRegistry]_vars

(***************************************************************************)
(* calculateRetryDelay on its own: the delays of consecutive attempts,     *)
(* each with its own jitter.                                               *)
(***************************************************************************)
ERROR_TYPES ==
  {"RATE_LIMITED", "SERVICE_UNAVAILABLE", "CAPTCHA", "BLOCKED", "NETWORK",
   "PARSE", "NOT_FOUND", "UNKNOWN"}

\* values of Math.random() * 1000
Jitters == {0, 1, 500, 999}

CallCalculateRetryDelay(errorType, jitter) ==
  LET next == /\ last.op = "calculateRetryDelay"
              /\ last.errorType = errorType
              /\ last.attempt < DelayAttempts
      attempt == IF next THEN last.attempt + 1 ELSE 0
  IN /\ last' = [op |-> "calculateRetryDelay", errorType |-> errorType,
                 attempt |-> attempt, jitter |-> jitter,
                 delay |-> calculateRetryDelay(errorType, attempt, jitter),
                 prev |-> IF next THEN last.delay ELSE 0]
     /\ UNCHANGED <<now, up, jobs, metadata, upcs, results, csv, exports, workers, site, saved, deleted>>

NextDelay ==
  \E errorType \in ERROR_TYPES, jitter \in Jitters :
     CallCalculateRetryDelay(errorType, jitter)

SpecDelay == InitRegistry /\ [][NextDelay]_vars

(***************************************************************************)
(* handleScrapingError on its own: any response or error object, any       *)
(* attempt number.                                                         *)
(***************************************************************************)
HandleAttempts == 4

\* handleScrapingError: the verdict for a response or error object
scrapingVerdict(error, attempt, jitter) ==
  LET errorType == detectErrorType(error)
      shouldRetry == isRetryable(errorType, attempt)
  IN [ errorType |-> errorType, shouldRetry |-> shouldRetry,
       delay |-> IF shouldRetry THEN calculateRetryDelay(errorType, attempt, jitter)
                 ELSE 0 ]

ErrorObjects ==
  {Response(429, Nil, Nil), Response(503, Nil, Nil), Response(404, Nil, Nil),
   Response(0, ChallengeText, Nil), Response(0, CaptchaDetectedText, Nil),
   Response(0, "Access Denied", Nil), Response(0, Http404Text, Nil),
   Response(0, Nil, Nil), Response(200, ProductNotFoundText, Nil)}
    \cup {Response(0, Nil, code) : code \in NetworkCodes}

InitHandle ==
  /\ up = TRUE
  /\ jobs = newJob(RegItems)
  /\ metadata = newJob(RegItems)
  /\ upcs = [k \in 1..RegItems |-> [rowId |-> k, status |-> "PENDING"]]
  /\ results = <<>>
  /\ csv = <<>>
  /\ exports = 0
  /\ workers = [w \in Workers |-> IdleWorker]
  /\ site = Single
  /\ saved = [k \in 1..RegItems |-> NeverSaved]
  /\ deleted = FALSE
  /\ now = 0
  /\ \E error \in ErrorObjects, attempt \in 0..HandleAttempts, jitter \in Jitters :
       last = [op |-> "failed", error |-> error, attempt |-> attempt,
               jitter |-> jitter]

CallHandleScrapingError ==
  /\ last.op = "failed"
  /\ last' = [op |-> "handleScrapingError", error |-> last.error,
              attempt |-> last.attempt,
              verdict |-> scrapingVerdict(last.error, last.attempt, last.jitter)]
  /\ UNCHANGED <<now, up, jobs, metadata, upcs, results, csv, exports, workers, site,
                 saved, deleted>>

NextHandle == CallHandleScrapingError

SpecHandle == InitHandle /\ [][NextHandle]_vars

(***************************************************************************)
(* validateProduct on its own: any scraped product, any input row.         *)
(***************************************************************************)
ScrapedBrands == {Nil, "", "Acme Tools Inc", "Bolt Co", "A.C.M.E.  Tools", "ACME"}
InputBrands == {"", "acme", "Acme  Tools", "tools inc", "!?", "acme inc"}
ScrapedUpcs == {Nil, "", "00012345678905", "UPC 123-456", "12345678905"}
InputUpcs == {"", "12345678905", "123456", "0012345678905", "n/a"}

\* a scraped product and the input row it is validated against
InitValidate ==
  /\ up = TRUE
  /\ jobs = newJob(RegItems)
  /\ metadata = newJob(RegItems)
  /\ upcs = [k \in 1..RegItems |-> [rowId |-> k, status |-> "PENDING"]]
  /\ results = <<>>
  /\ csv = <<>>
  /\ exports = 0
  /\ workers = [w \in Workers |-> IdleWorker]
  /\ site = Single
  /\ saved = [k \in 1..RegItems |-> NeverSaved]
  /\ deleted = FALSE
  /\ now = 0
  /\ \E brand \in ScrapedBrands, upc \in ScrapedUpcs,
        inputBrand \in InputBrands, inputUpc \in InputUpcs :
          last = [op |-> "scraped", product |-> [brand |-> brand, upc |-> upc],
                  inputBrand |-> inputBrand, inputUpc |-> inputUpc]

CallValidateProduct ==
  /\ last.op = "scraped"
  /\ last' = [op |-> "validateProduct", product |-> last.product,
              inputBrand |-> last.inputBrand, inputUpc |-> last.inputUpc,
              validation |-> validateProduct(last.product, last.inputBrand,
                                             last.inputUpc)]
  /\ UNCHANGED <<now, up, jobs, metadata, upcs, results, csv, exports, workers, site, saved, deleted>>

NextValidate == CallValidateProduct

SpecValidate == InitValidate /\ [][NextValidate]_vars

TypeOK ==
  /\ up \in BOOLEAN
  /\ site \in Sites
  /\ \A w \in Workers : workers[w].pc \in
       {"idle", "search", "fallback", "retrySleep", "productDelay", "product", "csv",
        "captchaDelay", "upcDelay"}
  /\ deleted \in BOOLEAN
  /\ Len(csv) >= 0
  /\ exports \in 0..2
  /\ metadata # Null => metadata.status \in JOB_STATUS
  /\ \A k \in 1..Len(upcs) : upcs[k].status \in UPC_STATUS

(***************************************************************************)
(* Properties.                                                             *)
(***************************************************************************)
LegalTransitions ==
  { <<"QUEUED", "RUNNING">>, <<"QUEUED", "FAILED">>, <<"RUNNING", "PAUSED">>,
    <<"RUNNING", "COMPLETED">>, <<"RUNNING", "FAILED">>, <<"PAUSED", "RUNNING">>,
    <<"PAUSED", "FAILED">>, <<"FAILED", "QUEUED">> }

TerminalRows(items) == {k \in 1..Len(items) : items[k].status \in Terminal}
OpenRows(items) == {k \in 1..Len(items) : items[k].status \in {"PENDING", "IN_PROGRESS"}}
InProgressRows(items) == {k \in 1..Len(items) : items[k].status = "IN_PROGRESS"}

\* C1: at no time are two worker loops active for the job.
C1_SingleLoopPerJob == Cardinality(Active(workers)) <= 1

\* C2: whenever the job can be observed, job.processed is the number of work
\* items whose status is DONE, FAILED or NOT_FOUND.
C2_ProcessedCountsTerminal ==
  metadata # Null => metadata.processed = Cardinality(TerminalRows(upcs))

\* C3: every change of the job's status, in metadata.json and in memory, is
\* one of the eight legal transitions; a COMPLETED job never changes status.
C3_OnlyLegalTransitions ==
  [][ /\ (metadata # Null /\ metadata' # Null /\ metadata'.status # metadata.status)
           => <<metadata.status, metadata'.status>> \in LegalTransitions
      /\ (jobs # Null /\ jobs' # Null /\ jobs'.status # jobs.status)
           => <<jobs.status, jobs'.status>> \in LegalTransitions ]_vars

\* a loop is still suspended while the job is already COMPLETED: whatever it
\* requests next meets a COMPLETED job
C3_Witness ==
  /\ metadata # Null /\ metadata.status = "COMPLETED"
  /\ Active(workers) # {}

\* C4: updateJobStatus asked for a transition outside the table returns null
\* and leaves the job record as it was, in memory and in metadata.json.
C4_RejectedLeavesRecord ==
  (last.op = "updateJobStatus"
     /\ <<last.metadataBefore.status, last.newStatus>> \notin LegalTransitions)
  => /\ last.ret = Null
     /\ metadata = last.metadataBefore
     /\ jobs = (IF last.jobsBefore = Null THEN last.metadataBefore ELSE last.jobsBefore)

C4_Witness ==
  /\ last.op = "updateJobStatus"
  /\ last.metadataBefore.status = "COMPLETED"
  /\ last.newStatus = "RUNNING"
  /\ last.ret = Null

\* C5: whenever the job is COMPLETED, every work item is DONE, FAILED or
\* NOT_FOUND.
C5_CompletedMeansAllTerminal ==
  (metadata # Null /\ metadata.status = "COMPLETED")
  => TerminalRows(upcs) = 1..Len(upcs)

\* C6: once a work item is DONE, FAILED or NOT_FOUND its status never changes
\* again and no worker loop calls searchAmazon for it again.
C6_TerminalItemsStay ==
  [][ \A k \in TerminalRows(upcs) \cap (1..Len(upcs')) :
        /\ upcs'[k].status = upcs[k].status
        /\ \A w \in Workers :
             (workers'[w].pc = "search" /\ workers'[w].row = k)
             => (workers[w].pc = "search" /\ workers[w].row = k) ]_vars

\* C7: at most one work item of the job is IN_PROGRESS at any time.
C7_OneItemInProgress == Cardinality(InProgressRows(upcs)) <= 1

\* C8: after any sequence of saveUpcResult calls the outcome collection
\* holds at most one entry per rowId, and that entry is the result of the
\* latest call for that rowId.
C8_OneOutcomePerRow ==
  \A r \in 1..Len(saved) :
     LET entries == {k \in 1..Len(results) : results[k].rowId = r}
     IN /\ Cardinality(entries) <= 1
        /\ saved[r].count > 0 => \E k \in entries : results[k] = saved[r].result

\* a rowId has been saved more than once
C8_Witness ==
  \E r \in 1..Len(saved) :
     /\ saved[r].count = 2
     /\ \E k \in 1..Len(results) : results[k].rowId = r

\* C9: the sweep at process start, for a job stored as RUNNING, resets every
\* IN_PROGRESS item and then launches exactly one loop, so the only item that
\* is IN_PROGRESS afterwards is the first open item, claimed by that loop; a
\* job stored under any other status is not modified and gets no loop.
C9_SweepResetsThenLaunches ==
  [][ (~up /\ up' /\ metadata # Null) =>
        IF metadata.status = "RUNNING"
        THEN /\ Cardinality(Active(workers')) = 1
             /\ \A w \in Active(workers') :
                  /\ InProgressRows(upcs') =
                       (IF OpenRows(upcs) = {} THEN {} ELSE {SetMin(OpenRows(upcs))})
                  /\ OpenRows(upcs) # {} => workers'[w].row = SetMin(OpenRows(upcs))
             /\ OpenRows(upcs') = OpenRows(upcs)
             /\ \A k \in TerminalRows(upcs) : upcs'[k] = upcs[k]
        ELSE /\ metadata' = metadata
             /\ upcs' = upcs
             /\ results' = results
             /\ Active(workers') = {} ]_vars

\* the sweep has relaunched a RUNNING job that had an item IN_PROGRESS
C9_Witness ==
  /\ last.op = "resumeRunningJobs"
  /\ last.resetCount > 0
  /\ metadata.status = "RUNNING"
  /\ Active(workers) # {}

\* C10: an accepted resume of a PAUSED or QUEUED job resets every IN_PROGRESS
\* item before the job is RUNNING and before the new loop claims its first
\* item: afterwards the only open item that is not PENDING is the first open
\* item, claimed by the new loop, and no terminal item has changed.
C10_ResumeResetsBeforeClaim ==
  [][ (metadata # Null /\ metadata.status \in {"PAUSED", "QUEUED"}
         /\ metadata' # Null /\ metadata'.status = "RUNNING") =>
        LET launched == Active(workers') \ Active(workers)
        IN /\ \A k \in TerminalRows(upcs) : upcs'[k] = upcs[k]
           /\ \A k \in OpenRows(upcs) :
                upcs'[k].status =
                  (IF \E w \in launched : workers'[w].pc = "search" /\ workers'[w].row = k
                   THEN "IN_PROGRESS" ELSE "PENDING")
           /\ \A w \in launched :
                workers'[w].pc = "search" => workers'[w].row = SetMin(OpenRows(upcs)) ]_vars

\* a resume found an item IN_PROGRESS and has been accepted
C10_Witness ==
  /\ last.op = "resumeJob"
  /\ last.resetCount > 0
  /\ metadata.status = "RUNNING"

\* loop w calls processUpc in this step
Claims(w) ==
  /\ workers'[w].pc = "search"
  /\ workers[w].pc \in {"idle", "upcDelay", "captchaDelay"}

PendingRows(items) == {k \in 1..Len(items) : items[k].status = "PENDING"}

JobStatus == IF metadata = Null THEN "none" ELSE metadata.status

\* the record a request handler got from getJob
Cached == IF jobs # Null THEN jobs ELSE metadata

\* C11: getNextPendingUpc returns the PENDING item that comes first in the
\* input order, or none when no item is PENDING; whenever a loop claims an
\* item no earlier item is PENDING; the stored order of the items never
\* changes.
C11_NextPendingInInputOrder ==
  /\ [](getNextPendingUpc(S) =
          (IF PendingRows(upcs) = {} THEN 0 ELSE SetMin(PendingRows(upcs))))
  /\ [](\A k \in 1..Len(upcs) : upcs[k].rowId = k)
  /\ [][ /\ \A w \in Workers :
              Claims(w) => \A j \in 1..(workers'[w].row - 1) :
                              upcs'[j].status # "PENDING"
         /\ (upcs # <<>> /\ upcs' # <<>>) => Len(upcs') = Len(upcs) ]_vars

\* a loop has claimed the second item after the first one became terminal
C11_Witness ==
  /\ Len(upcs) >= 2
  /\ upcs[1].status \in Terminal
  /\ \E w \in Workers : workers[w].pc = "search" /\ workers[w].row = 2

\* C12: when the third consecutive outcome of a loop is classified CHALLENGE
\* the job is PAUSED, the item that triggered it is PENDING and the
\* errorMessage of the job is not empty.
C12_ChallengeBreakerPauses ==
  (last.op = "captchaBreaker" /\ metadata # Null)
  => /\ metadata.status = "PAUSED"
     /\ upcs[last.row].status = "PENDING"
     /\ metadata.errorMessage # Nil

\* C13: on a site that finds nothing, a started job is eventually COMPLETED
\* with failed = 0, processed = N, every item NOT_FOUND and an export of N
\* rows whose product fields are empty.
C13_AllNotFoundCompletes ==
  (JobStatus = "RUNNING")
  ~> (IF metadata = Null THEN FALSE
      ELSE /\ metadata.status = "COMPLETED"
           /\ metadata.failed = 0
           /\ metadata.processed = Len(upcs)
           /\ \A k \in 1..Len(upcs) : upcs[k].status = "NOT_FOUND"
           /\ Len(csv) = Len(upcs)
           /\ \A k \in 1..Len(csv) : csv[k].empty /\ csv[k].rowId = k)

C13_Witness ==
  /\ site = Empty
  /\ metadata # Null /\ metadata.status = "COMPLETED"
  /\ Len(upcs) = EmptyItems
  /\ Len(csv) = EmptyItems

C15_RateLimitedDelays ==
  (last.op = "calculateRetryDelay" /\ last.errorType = "RATE_LIMITED")
  => /\ last.delay = Min(30000 * Pow(2, last.attempt) + last.jitter, 300000)
     /\ last.delay <= 300000
     /\ last.prev <= last.delay

C15_Witness ==
  /\ last.op = "calculateRetryDelay"
  /\ last.errorType = "RATE_LIMITED"
  /\ last.attempt = DelayAttempts
  /\ last.jitter = 0
  /\ last.prev = 30000 * Pow(2, DelayAttempts - 1) + 999

\* C16: a resume request for a job that is not QUEUED or PAUSED is answered
\* 409 and changes neither the job record nor a work item nor the loops; a
\* request for a QUEUED or PAUSED job is answered 200 and the job is RUNNING
\* when it returns.
C16_ResumeRequest ==
  [][ (last'.op = "resumeJob" /\ metadata # Null) =>
        IF Cached.status \in {"QUEUED", "PAUSED"}
        THEN /\ last'.code = 200
             /\ metadata'.status = "RUNNING"
             /\ jobs'.status = "RUNNING"
        ELSE /\ last'.code = 409
             /\ metadata' = metadata
             /\ jobs' = Cached
             /\ upcs' = upcs
             /\ results' = results
             /\ workers' = workers ]_vars

\* a resume of a RUNNING job has been refused while its loop is suspended
C16_Witness ==
  /\ last.op = "resumeJob" /\ last.code = 409
  /\ metadata.status = "RUNNING"
  /\ Active(workers) # {}

\* C17: a pause request is answered 200 exactly when the job is RUNNING, and
\* the job is PAUSED when it returns; for any other status it is answered
\* 409 and the job record is unchanged.
C17_PauseRequest ==
  [][ (last'.op = "pauseJob" /\ metadata # Null) =>
        IF Cached.status = "RUNNING"
        THEN /\ last'.code = 200
             /\ metadata'.status = "PAUSED"
             /\ jobs'.status = "PAUSED"
        ELSE /\ last'.code = 409
             /\ metadata' = metadata
             /\ jobs' = Cached
             /\ upcs' = upcs
             /\ workers' = workers ]_vars

\* a pause of a job that is already PAUSED has been refused
C17_Witness ==
  /\ last.op = "pauseJob" /\ last.code = 409
  /\ metadata.status = "PAUSED"

\* C18: an item goes from PENDING to IN_PROGRESS, and a loop claims an
\* item, only in a step that leaves the job RUNNING: a loop that finds the
\* job PAUSED, COMPLETED or FAILED at its checkpoint claims nothing.
C18_NoClaimUnlessRunning ==
  [][ /\ \A w \in Workers :
           Claims(w) => (metadata' # Null /\ metadata'.status = "RUNNING")
      /\ Len(upcs') = Len(upcs) =>
           \A k \in 1..Len(upcs) :
              (upcs[k].status = "PENDING" /\ upcs'[k].status = "IN_PROGRESS")
              => (metadata' # Null /\ metadata'.status = "RUNNING") ]_vars

\* the loop of a job paused by a client has exited at its checkpoint and
\* left the next item PENDING
C18_Witness ==
  /\ metadata # Null
  /\ metadata.status = "PAUSED" /\ metadata.errorMessage = Nil
  /\ Active(workers) = {}
  /\ PendingRows(upcs) # {}
  /\ TerminalRows(upcs) # {}
  /\ InProgressRows(upcs) = {}

\* C19: once deleteJob has returned, the job has no job record, no work-item
\* list and no outcome collection on disk, in any later state.
C19_DeletedStaysDeleted ==
  deleted => (metadata = Null /\ upcs = <<>> /\ results = <<>>)

\* C20: a job that has been created and not yet started is QUEUED with
\* totalUpcs = N, processed = 0, failed = 0, no timestamps and no
\* errorMessage; its N items are PENDING in input order, no loop runs and
\* nothing has been saved.
C20_CreatedJobIsInert ==
  (metadata # Null /\ metadata.status = "QUEUED")
  => /\ metadata.totalUpcs = Len(upcs)
     /\ metadata.processed = 0 /\ metadata.failed = 0
     /\ metadata.startedAt = Nil /\ metadata.pausedAt = Nil
     /\ metadata.completedAt = Nil /\ metadata.errorMessage = Nil
     /\ jobs # Null => jobs = metadata
     /\ \A k \in 1..Len(upcs) : upcs[k] = [rowId |-> k, status |-> "PENDING"]
     /\ Active(workers) = {}
     /\ results = <<>>

\* a created job has been asked to pause, which was refused
C20_Witness ==
  /\ metadata # Null /\ metadata.status = "QUEUED"
  /\ Len(upcs) = 2
  /\ last.op = "pauseJob" /\ last.code = 409

\* the status updateJobStatus finds
CachedStatus == IF jobs # Null THEN jobs.status ELSE JobStatus

\* C21: when generateCsv fails at the moment all items are terminal, the
\* loop still completes the job: a job that is RUNNING when the failed
\* export returns is COMPLETED by that step, processed and failed keep
\* their values, and a COMPLETED job stays COMPLETED.
C21_ExportFailureStillCompletes ==
  [][ /\ (last'.op = "generateCsv" /\ ~last'.written /\ CachedStatus = "RUNNING")
         => /\ metadata' # Null
            /\ metadata'.status = "COMPLETED"
            /\ metadata'.processed = metadata.processed
            /\ metadata'.failed = metadata.failed
            /\ csv' = csv
      /\ (JobStatus = "COMPLETED" /\ metadata' # Null)
         => metadata'.status = "COMPLETED" ]_vars

\* the export of a job has failed and the job is COMPLETED without a file
C21_Witness ==
  /\ last.op = "generateCsv" /\ ~last.written
  /\ metadata # Null /\ metadata.status = "COMPLETED"
  /\ metadata.processed = Len(upcs)
  /\ csv = <<>>

\* C22: generateCsv is called at most once for the job, and the step in
\* which it returns leaves the job COMPLETED.
C22_ExportOnceOnCompletion ==
  /\ [](exports <= 1)
  /\ [][ last'.op = "generateCsv"
         => (metadata' # Null /\ metadata'.status = "COMPLETED") ]_vars

\* the job enters PAUSED or FAILED in this step
Halts ==
  /\ metadata # Null /\ metadata' # Null
  /\ metadata'.status \in {"PAUSED", "FAILED"}
  /\ metadata'.status # metadata.status

\* C23: a transition into PAUSED or FAILED records a reason in errorMessage,
\* and the reason stays there, also when the job is resumed to RUNNING,
\* until the next transition into PAUSED or FAILED or a retry to QUEUED.
C23_ErrorMessageKeepsLastReason ==
  [][ /\ Halts => metadata'.errorMessage # Nil
      /\ (metadata # Null /\ metadata' # Null /\ ~Halts
            /\ metadata.errorMessage # Nil /\ metadata'.status # "QUEUED")
         => metadata'.errorMessage = metadata.errorMessage ]_vars

C25_ChallengeAbortsItem ==
  [][ (last'.op \in {"captcha", "captchaBreaker"} /\ last'.row <= Len(upcs'))
      => /\ upcs'[last'.row].status = "PENDING"
         /\ results' = results
         /\ saved' = saved
         /\ workers'[last'.w].pc \in {"captchaDelay", "idle"}
         /\ workers'[last'.w].row = 0 /\ workers'[last'.w].nres = 0 ]_vars

\* a candidate had been gathered when the next one was challenged
C25_Witness ==
  /\ last.op = "captcha" /\ last.gathered > 0
  /\ upcs[last.row].status = "PENDING"
  /\ \A k \in 1..Len(results) : results[k].rowId # last.row
  /\ workers[last.w].pc = "captchaDelay"

\* the notes of the turns in which processUpc is resumed with the answer of
\* searchAmazon or of scrapeProductPage
FetchNotes == {"searchAmazon", "scrapeProductPage", "captcha", "captchaBreaker"}

\* C26: when fetchPage answers a search fetch or a product fetch with the
\* error 'CAPTCHA_DETECTED', the item is handled as CHALLENGE: the answer
\* counts for the breaker and the item is PENDING again, not NOT_FOUND, DONE
\* or FAILED.
C26_TransportChallengeIsChallenge ==
  [][ (last'.op \in FetchNotes /\ last'.error = CaptchaDetectedText
         /\ last'.row <= Len(upcs'))
      => /\ last'.op \in {"captcha", "captchaBreaker"}
         /\ upcs'[last'.row].status = "PENDING" ]_vars

\* loop w is inside processUpc, suspended on a fetch or a retry delay
InProcessUpc(w) ==
  workers[w].pc \in {"search", "fallback", "retrySleep", "productDelay", "product"}

\* C27: in the step in which processUpc returns with the item DONE, FAILED
\* or NOT_FOUND, consecutiveCaptchas of the loop is reset to zero.
C27_TerminalOutcomeResetsChallenges ==
  [][ \A w \in Workers :
        (/\ InProcessUpc(w)
         /\ workers'[w].pc = "upcDelay"
         /\ workers[w].row <= Len(upcs')
         /\ upcs'[workers[w].row].status \in Terminal)
        => workers'[w].cC = 0 ]_vars

FailedRows(items) == {k \in 1..Len(items) : items[k].status = "FAILED"}

\* C28: the failure breaker pauses the job at the tenth FAILED outcome in a
\* row and not before, CHALLENGE outcomes not being counted: a job paused
\* with the message of the failure breaker has at least ten FAILED items.
C28_FailureBreakerAtTenthFailed ==
  (metadata # Null /\ metadata.status = "PAUSED" /\ metadata.errorMessage = ErrorsMsg)
    => Cardinality(FailedRows(upcs)) >= MAX_CONSECUTIVE_ERRORS

\* C29: an item becomes NOT_FOUND only in the step in which searchAmazon
\* answers after both fetches, the one with the original code and the one
\* with the '00'-prefixed code, succeeded without candidates; it does not
\* become NOT_FOUND when a fetch of the search failed.
C29_NotFoundAfterTwoEmptySearches ==
  [][ \A k \in (DOMAIN upcs) \cap (DOMAIN upcs') :
        (upcs[k].status # "NOT_FOUND" /\ upcs'[k].status = "NOT_FOUND")
        => /\ last'.op = "searchAmazon" /\ last'.row = k
           /\ last'.first = "ok" /\ last'.fallback = "ok" ]_vars

\* C30: whenever an item is DONE, FAILED or NOT_FOUND, the saved outcomes
\* hold an entry for its row with the same status; this is so in every state
\* in which the process is up, those after a crash and the restart included.
C30_TerminalItemHasOutcome ==
  \A k \in DOMAIN upcs :
    (up /\ upcs[k].status \in Terminal)
      => \E j \in DOMAIN results :
           results[j].rowId = k /\ results[j].status = upcs[k].status

C32_FailedCandidateIsSkipped ==
  [][ (last'.op = "scrapeProductPage" /\ last'.error # Nil
         /\ last'.row \in DOMAIN upcs')
      => LET w == last'.w
             row == last'.row
         IN IF workers[w].i + 1 < workers[w].n
            THEN /\ workers'[w].pc = "productDelay"
                 /\ workers'[w].i = workers[w].i + 1
                 /\ workers'[w].nres = workers[w].nres
                 /\ upcs' = upcs /\ results' = results
            ELSE /\ upcs'[row].status = "DONE"
                 /\ saved'[row].result.status = "DONE"
                 /\ saved'[row].result.nres = workers[w].nres
                 /\ \E j \in DOMAIN results' :
                      /\ results'[j].rowId = row /\ results'[j].status = "DONE"
                      /\ results'[j].nres = workers[w].nres ]_vars

\* the only candidate of an item could not be extracted: the item is DONE
\* with an outcome without candidates
C32_Witness ==
  /\ last.op = "scrapeProductPage" /\ last.error = ProductNotFoundText
  /\ last.row \in DOMAIN upcs
  /\ upcs[last.row].status = "DONE"
  /\ \E j \in DOMAIN results : results[j].rowId = last.row /\ results[j].nres = 0

\* C33: the job becomes FAILED only in the step in which runWorker rejects,
\* and errorMessage is then the message of the crash; in a step in which a
\* collaborator answers (with candidates, with an error or by throwing) the
\* job does not become FAILED and the loop does not end, unless a breaker
\* pauses the job.
C33_OnlyLoopRejectionFailsJob ==
  [][ /\ (JobStatus' = "FAILED" /\ JobStatus # "FAILED")
           => (last'.op = "workerCrashed" /\ metadata'.errorMessage = CrashMsg)
      /\ (last'.op \in FetchNotes \cup {"performSearch"})
           => /\ JobStatus' = "FAILED" => JobStatus = "FAILED"
              /\ workers'[last'.w].pc = "idle"
                   => \/ workers[last'.w].cC + 1 >= MAX_CONSECUTIVE_CAPTCHAS
                      \/ workers[last'.w].cE + 1 >= MAX_CONSECUTIVE_ERRORS ]_vars

\* an item ended FAILED on an error thrown by the search while the job went
\* on, and the job became FAILED when the loop rejected
C33_Witness ==
  /\ last.op = "workerCrashed"
  /\ JobStatus = "FAILED" /\ metadata.errorMessage = CrashMsg
  /\ FailedRows(upcs) # {}

\* the number of retries the policy of a kind of error allows
RetryLimit(errorType) ==
  IF errorType \in {"RATE_LIMITED", "SERVICE_UNAVAILABLE", "NETWORK"} THEN 3
  ELSE IF errorType = "CAPTCHA" THEN 1
  ELSE 0

\* C34: handleScrapingError answers shouldRetry exactly when the attempt
\* number is below the maximum of the policy of the kind of error (3 for
\* RATE_LIMITED, SERVICE_UNAVAILABLE and NETWORK, 1 for CAPTCHA, no policy
\* for the other kinds), and a verdict without retry has delay 0.
C34_RetryVerdictFollowsPolicy ==
  last.op = "handleScrapingError"
    => /\ last.verdict.shouldRetry
            <=> (last.attempt < RetryLimit(last.verdict.errorType))
       /\ ~last.verdict.shouldRetry => last.verdict.delay = 0
       /\ last.verdict.errorType \in {"NOT_FOUND", "UNKNOWN", "BLOCKED"}
            => ~last.verdict.shouldRetry

\* a network error at the third attempt is retried, with a delay
C34_Witness ==
  /\ last.op = "handleScrapingError"
  /\ last.verdict.errorType = "NETWORK" /\ last.attempt = 2
  /\ last.verdict.shouldRetry /\ last.verdict.delay > 0


\* a job record's timestamps agree with its status
TimestampsAgree(job) ==
  /\ job.status = "QUEUED" =>
       /\ job.startedAt = Nil /\ job.pausedAt = Nil
       /\ job.completedAt = Nil /\ job.errorMessage = Nil
  /\ job.status = "RUNNING" => job.startedAt # Nil /\ job.pausedAt = Nil
  /\ job.status = "PAUSED" => job.startedAt # Nil /\ job.pausedAt # Nil
  /\ job.completedAt # Nil <=> job.status \in {"COMPLETED", "FAILED"}

\* C35: the timestamps of the job record agree with its status (QUEUED: startedAt,
\* pausedAt, completedAt and errorMessage are all null, also after FAILED -> QUEUED;
\* RUNNING: startedAt set and pausedAt null; PAUSED: startedAt and pausedAt set;
\* completedAt set exactly when COMPLETED or FAILED), and startedAt, once set, keeps
\* the time of the first entry into RUNNING until the record goes back to QUEUED
C35_TimestampsAgreeWithStatus ==
  /\ [](/\ metadata # Null => TimestampsAgree(metadata)
        /\ jobs # Null => TimestampsAgree(jobs))
  /\ [][IF metadata # Null /\ metadata' # Null
        THEN (metadata.startedAt # Nil /\ metadata'.status # "QUEUED")
               => metadata'.startedAt = metadata.startedAt
        ELSE TRUE]_vars

\* the job is RUNNING again after a pause, later than its first entry into RUNNING
C35_Witness ==
  /\ last.op = "updateJobStatus" /\ last.newStatus = "RUNNING"
  /\ last.metadataBefore # Null /\ last.metadataBefore.status = "PAUSED"
  /\ metadata.status = "RUNNING"
  /\ now > 0
  /\ metadata.startedAt = toISOString(0)
  /\ metadata.pausedAt = Nil


\* C36: when the collaborators always answer, the timers fire and the process
\* does not crash, every worker loop that was launched eventually exits: an item
\* that is challenged does not keep it running forever
C36_LaunchedLoopExits ==
  \A w \in Workers : [](workers[w].pc # "idle" => <>(workers[w].pc = "idle"))


\* the await points of a loop at which a delay is running
DelayPcs == {"retrySleep", "productDelay", "productRetrySleep", "captchaDelay", "upcDelay"}

\* in this step loop w calls searchAmazon or scrapeProductPage
Invokes(w) ==
  /\ workers'[w] # workers[w]
  /\ workers'[w].pc \in {"search", "product"}

\* C37: within one worker loop a delay is applied between any two consecutive
\* invocations of the search and page-extraction collaborators: a loop that has
\* already been launched calls a collaborator only in the turn in which a delay
\* (inter-step, inter-item, CHALLENGE cooldown or retry delay) has elapsed
C37_DelayBetweenInvocations ==
  [][\A w \in Workers :
       (Invokes(w) /\ workers[w].pc # "idle") => workers[w].pc \in DelayPcs]_vars

\* a loop that retried the search after the retry delay is extracting its second
\* candidate after the delay between candidates
C37_Witness ==
  \E w \in Workers :
    /\ workers[w].pc = "product"
    /\ workers[w].i >= 1
    /\ workers[w].attempt >= 1


Running == IF metadata = Null THEN FALSE ELSE metadata.status = "RUNNING"

\* while the process is up, a RUNNING job has a worker loop
RunningHasLoop == (up /\ Running) => Active(workers) # {}

\* C39: while the process stays up a job is not RUNNING without a worker loop
\* (when the last active loop of the job exits, the job is PAUSED, COMPLETED or
\* FAILED, or its record is gone), and when the awaited fetches and timers
\* settle every job that is RUNNING eventually leaves RUNNING
C39_RunningJobHasLoop ==
  /\ []RunningHasLoop
  /\ Running ~> ~Running

\* the last loop of the job has exited after an export that failed, and the job
\* is COMPLETED
C39_Witness ==
  /\ last.op = "generateCsv" /\ ~last.written
  /\ Active(workers) = {}
  /\ metadata # Null /\ metadata.status = "COMPLETED"


\* C40: validateProduct reports brandMatch only if the input brand has at least
\* one letter or digit, and upcMatch only if the input code has at least one
\* digit: an input whose normalized form is empty never yields a match
C40_EmptyNormalizedInputNeverMatches ==
  last.op = "validateProduct"
  => /\ last.validation.brandMatch => normalizeBrandName(last.inputBrand) # ""
     /\ last.validation.upcMatch => normalizeUpc(last.inputUpc) # ""

====
